---------------------------- MODULE Spec2Model ----------------------------
(***************************************************************************)
(* A model of app.py, the Zack Financial GL dashboard: header              *)
(* reconciliation, date and amount normalisation, dataset preparation,     *)
(* filtering, and the rolling (cumulative) monthly trial balance.          *)
(*                                                                         *)
(* Conventions.  A text is a sequence of one-character strings.  A cell    *)
(* is a record with a kind field: "text" (s), "num" (k, the number         *)
(* 1000*k), "ts" (days, a timestamp at midnight, in days since             *)
(* 1970-01-01), "amt" (v, a numeric amount) or "nan" (NaN / NaT / empty).  *)
(* Amounts are integers: float rounding is outside the model.              *)
(***************************************************************************)
EXTENDS Integers, Sequences, FiniteSets, TLC

(***************************************************************************)
(* Bounds of the model.                                                    *)
(***************************************************************************)
MaxText == 4      \* longest amount text given to parse_amount
MaxSeries == 3    \* longest column given to parse_date
MaxCols == 3      \* most raw columns given to header reconciliation
MaxRecs == 3      \* most canonical records given to trial_balance_view
MaxRows == 2      \* most raw rows of an uploaded sheet

(***************************************************************************)
(* Texts.                                                                  *)
(***************************************************************************)
NaN == [kind |-> "nan"]
Txt(s) == [kind |-> "text", s |-> s]
Amt(v) == [kind |-> "amt", v |-> v]
Ts(days) == [kind |-> "ts", days |-> days]
IsNull(c) == c.kind = "nan"

Uppers == <<"A","B","C","D","E","F","G","H","I","J","K","L","M",
            "N","O","P","Q","R","S","T","U","V","W","X","Y","Z">>
Lowers == <<"a","b","c","d","e","f","g","h","i","j","k","l","m",
            "n","o","p","q","r","s","t","u","v","w","x","y","z">>

UpperSet == {Uppers[i] : i \in 1..Len(Uppers)}
LowerOf == [c \in UpperSet |-> Lowers[CHOOSE i \in 1..Len(Uppers) : Uppers[i] = c]]

\* str.lower() on one character
LowerChar(c) == IF c \in UpperSet THEN LowerOf[c] ELSE c

\* str.strip(): drop the leading and the trailing blanks
RECURSIVE LStrip(_)
LStrip(s) == IF s # <<>> /\ Head(s) = " " THEN LStrip(Tail(s)) ELSE s

RECURSIVE RStrip(_)
RStrip(s) ==
    IF s # <<>> /\ s[Len(s)] = " " THEN RStrip(SubSeq(s, 1, Len(s) - 1)) ELSE s

Strip(s) == LStrip(RStrip(s))

\* _norm(s) = str(s).strip().lower()
_norm(s) == LET t == Strip(s) IN [i \in 1..Len(t) |-> LowerChar(t[i])]

(***************************************************************************)
(* parse_amount, on one value of the column (the function is elementwise). *)
(***************************************************************************)
Digits == <<"0","1","2","3","4","5","6","7","8","9">>
IsDigit(c) == \E i \in 1..10 : Digits[i] = c
DigitVal(c) == (CHOOSE i \in 1..10 : Digits[i] = c) - 1

RECURSIVE DigitsVal(_)
DigitsVal(s) ==
    IF s = <<>> THEN 0 ELSE 10 * DigitsVal(SubSeq(s, 1, Len(s) - 1)) + DigitVal(s[Len(s)])

AllDigits(s) == s # <<>> /\ \A i \in 1..Len(s) : IsDigit(s[i])

\* pd.to_numeric(text, errors="coerce") over the texts of the model's
\* alphabet: an optional minus sign and decimal digits, anything else NaN
to_numeric(s) ==
    IF AllDigits(s) THEN Amt(DigitsVal(s))
    ELSE IF s # <<>> /\ Head(s) = "-" /\ AllDigits(Tail(s)) THEN Amt(0 - DigitsVal(Tail(s)))
    ELSE NaN

\* .str.replace(",", "", regex=False)
RemoveCommas(s) == SelectSeq(s, LAMBDA c : c # ",")

FirstOpen(s) == CHOOSE i \in 1..Len(s) : s[i] = "(" /\ \A j \in 1..(i - 1) : s[j] # "("
LastClose(s) == CHOOSE i \in 1..Len(s) : s[i] = ")" /\ \A j \in (i + 1)..Len(s) : s[j] # ")"

\* s.replace(r"\((.*)\)", r"-\1", regex=True): re.sub of the leftmost match,
\* which runs from the first "(" to the last ")" (greedy .*), by "-" and
\* the text between them; the text around the match is kept
ParenRewrite(s) ==
    IF /\ \E i \in 1..Len(s) : s[i] = "("
       /\ \E i \in 1..Len(s) : s[i] = ")"
       /\ FirstOpen(s) < LastClose(s)
    THEN SubSeq(s, 1, FirstOpen(s) - 1) \o <<"-">>
           \o SubSeq(s, FirstOpen(s) + 1, LastClose(s) - 1)
           \o SubSeq(s, LastClose(s) + 1, Len(s))
    ELSE s

parse_amount(s) == to_numeric(ParenRewrite(Strip(RemoveCommas(s))))

(***************************************************************************)
(* Calendar arithmetic of the timestamps (proleptic Gregorian calendar),   *)
(* on day numbers counted from 1970-01-01.                                 *)
(***************************************************************************)
DaysFromCivil(y, m, d) ==
    LET yy  == IF m <= 2 THEN y - 1 ELSE y
        era == yy \div 400
        yoe == yy - era * 400
        mp  == IF m > 2 THEN m - 3 ELSE m + 9
        doy == (153 * mp + 2) \div 5 + d - 1
        doe == yoe * 365 + yoe \div 4 - yoe \div 100 + doy
    IN  era * 146097 + doe - 719468

CivilFromDays(z0) ==
    LET z   == z0 + 719468
        era == z \div 146097
        doe == z - era * 146097
        yoe == (doe - doe \div 1460 + doe \div 36524 - doe \div 146096) \div 365
        doy == doe - (365 * yoe + yoe \div 4 - yoe \div 100)
        mp  == (5 * doy + 2) \div 153
        m   == IF mp < 10 THEN mp + 3 ELSE mp - 9
    IN  [y |-> yoe + era * 400 + (IF m <= 2 THEN 1 ELSE 0),
         m |-> m,
         d |-> doy - (153 * mp + 2) \div 5 + 1]

\* Series.dt.year
YearOf(days) == CivilFromDays(days).y

\* Series.dt.to_period("M").dt.to_timestamp(): the first day of the month
MonthStart(days) == LET c == CivilFromDays(days) IN DaysFromCivil(c.y, c.m, 1)

\* the range of a nanosecond timestamp, 1677-09-21 .. 2262-04-11, in days
TsMinDays == 0 - 106752
TsMaxDays == 106751
InTsRange(days) == TsMinDays <= days /\ days <= TsMaxDays

DaysInMonth(y, m) == DaysFromCivil(IF m = 12 THEN y + 1 ELSE y, IF m = 12 THEN 1 ELSE m + 1, 1)
                       - DaysFromCivil(y, m, 1)

(***************************************************************************)
(* parse_date.                                                             *)
(***************************************************************************)
\* a number of the numeric column: 1000*k + r with 0 <= r < 1000
Num(k, r) == [kind |-> "num", k |-> k, r |-> r]

\* the free-form parse of a text, on the texts of the model: YYYY-MM-DD
ParseIsoText(s) ==
    IF /\ Len(s) = 10
       /\ s[5] = "-" /\ s[8] = "-"
       /\ \A i \in {1, 2, 3, 4, 6, 7, 9, 10} : IsDigit(s[i])
    THEN LET y == DigitsVal(SubSeq(s, 1, 4))
             m == DigitsVal(SubSeq(s, 6, 7))
             d == DigitsVal(SubSeq(s, 9, 10))
         IN  IF /\ m \in 1..12
                /\ d >= 1
                /\ d <= DaysInMonth(y, m)
                /\ InTsRange(DaysFromCivil(y, m, d))
             THEN Ts(DaysFromCivil(y, m, d))
             ELSE NaN
    ELSE NaN

\* pd.to_datetime(value, errors="coerce"): a timestamp is kept, a text is
\* parsed, a number is read as nanoseconds since 1970-01-01
Baseline(c) ==
    CASE c.kind = "ts"   -> c
      [] c.kind = "text" -> ParseIsoText(Strip(c.s))
      [] c.kind = "num"  -> Ts(IF c.k >= 0 THEN 0 ELSE 0 - 1)
      [] OTHER           -> NaN

\* pd.to_numeric(str(value) without commas, stripped, errors="coerce")
NumOf(c) ==
    CASE c.kind = "num"  -> c
      [] c.kind = "text" ->
            LET t == to_numeric(Strip(RemoveCommas(c.s)))
            IN  IF IsNull(t) THEN NaN ELSE Num(t.v \div 1000, t.v % 1000)
      [] OTHER           -> NaN

Units == <<"d", "s", "ms">>

\* the number read in the unit, as a day number; the day-serial reading
\* counts from 1899-12-30, which is day -25569
OutOfBounds(n, unit) ==
    CASE unit = "d"  -> n.k > 200 \/ n.k < 0 - 200 \/ ~InTsRange(1000 * n.k + n.r - 25569)
      [] unit = "s"  -> n.k > 9223372 \/ n.k < 0 - 9223372
      [] unit = "ms" -> FALSE

DaysIn(n, unit) ==
    CASE unit = "d"  -> 1000 * n.k + n.r - 25569
      [] unit = "s"  -> (5 * n.k + n.r \div 200) \div 432
      [] unit = "ms" -> n.k \div 86400

\* pd.to_datetime(nums, unit=unit, origin=..., errors="coerce"), one value
ReadAs(n, unit) ==
    IF IsNull(n) \/ OutOfBounds(n, unit) THEN NaN ELSE Ts(DaysIn(n, unit))

Candidate(nums, unit) == [i \in 1..Len(nums) |-> ReadAs(nums[i], unit)]

\* the years taken as plausible by score
YearLo == 1990
YearHi == 2100

\* score(d): -1 when nothing resolved, else the number of plausible years
score(d) ==
    IF \A i \in 1..Len(d) : IsNull(d[i]) THEN 0 - 1
    ELSE Cardinality({i \in 1..Len(d) : ~IsNull(d[i]) /\ YearOf(d[i].days) >= YearLo
                                         /\ YearOf(d[i].days) <= YearHi})

\* a variant of TryUnit that lets a candidate of equal score replace the best
TryUnitOnTie(best, nums, unit, raised) ==
    LET cand == Candidate(nums, unit)
        sc   == score(cand)
    IN  IF unit \in raised THEN best
        ELSE IF sc >= best.sc THEN [cand |-> cand, sc |-> sc, by |-> unit]
        ELSE best

\* one turn of the loop over the units: the candidate replaces the best so
\* far when its score is strictly higher; a candidate whose evaluation
\* raised is passed over
TryUnit(best, nums, unit, raised) ==
    LET cand == Candidate(nums, unit)
        sc   == score(cand)
    IN  IF unit \in raised THEN best
        ELSE IF sc > best.sc THEN [cand |-> cand, sc |-> sc, by |-> unit]
        ELSE best

RECURSIVE TryUnits(_, _, _, _)
TryUnits(best, nums, units, raised) ==
    IF units = <<>> THEN best
    ELSE TryUnits(TryUnit(best, nums, Head(units), raised), nums, Tail(units), raised)

\* the units whose evaluation may raise instead of coercing: only a value
\* out of the timestamp range can make one raise
MayRaise(series) ==
    {u \in {"d", "s", "ms"} :
        \E i \in 1..Len(series) : ~IsNull(NumOf(series[i])) /\ OutOfBounds(NumOf(series[i]), u)}

\* parse_date(series), with the set of units whose evaluation raised; the
\* result carries the chosen candidate, its score and the reading chosen
parse_date_best(series, raised) ==
    LET s0   == [i \in 1..Len(series) |-> Baseline(series[i])]
        nums == [i \in 1..Len(series) |-> NumOf(series[i])]
        b0   == [cand |-> s0, sc |-> score(s0), by |-> "baseline"]
    IN  IF \E i \in 1..Len(nums) : ~IsNull(nums[i])
        THEN TryUnits(b0, nums, Units, raised)
        ELSE b0

\* best.dt.normalize(): the timestamps are whole days already
parse_date(series, raised) == parse_date_best(series, raised).cand

(***************************************************************************)
(* Column labels.                                                          *)
(***************************************************************************)
c_seq == <<"s","e","q">>
c_Fund == <<"F","u","n","d">>
c_FSLI1 == <<"F","S","L","I",".","1">>
c_FSLI3 == <<"F","S","L","I",".","3">>
c_GLAccount == <<"G","L"," ","A","c","c","o","u","n","t">>
c_GLAccountName == <<"G","L"," ","A","c","c","o","u","n","t"," ","N","a","m","e">>
c_reference == <<"r","e","f","e","r","e","n","c","e">>
c_description == <<"d","e","s","c","r","i","p","t","i","o","n">>
c_date == <<"d","a","t","e">>
c_NetAmount == <<"N","e","t"," ","a","m","o","u","n","t">>
c_Date == <<"D","a","t","e">>
c_Amount == <<"A","m","o","u","n","t">>
c_Month == <<"M","o","n","t","h">>

EXPECTED == <<c_seq, c_Fund, c_FSLI1, c_FSLI3, c_GLAccount, c_GLAccountName,
              c_reference, c_description, c_date, c_NetAmount>>

(***************************************************************************)
(* Header reconciliation (the first part of prepare).                      *)
(***************************************************************************)
\* a variant of FirstMatch that lets the last matching column win
LastMatch(ncols, want) ==
    LET w == _norm(want)
    IN  CHOOSE i \in 1..Len(ncols) :
            ncols[i] = w /\ \A j \in (i + 1)..Len(ncols) : ncols[j] # w

\* the inner loop: the first column, in column order, matching want;
\* ncols holds _norm of every column label
FirstMatch(ncols, want) ==
    LET w == _norm(want)
    IN  CHOOSE i \in 1..Len(ncols) : ncols[i] = w /\ \A j \in 1..(i - 1) : ncols[j] # w

HasMatch(ncols, want) == LET w == _norm(want) IN \E i \in 1..Len(ncols) : ncols[i] = w

\* rename[c] = want
Put(rename, c, want) ==
    [x \in (DOMAIN rename) \cup {c} |-> IF x = c THEN want ELSE rename[x]]

\* the outer loop over EXPECTED, building the rename dict
RECURSIVE BuildRename(_, _, _, _)
BuildRename(cols, ncols, wants, rename) ==
    IF wants = <<>> THEN rename
    ELSE IF HasMatch(ncols, Head(wants))
         THEN BuildRename(cols, ncols, Tail(wants),
                          Put(rename, cols[FirstMatch(ncols, Head(wants))], Head(wants)))
         ELSE BuildRename(cols, ncols, Tail(wants), rename)

\* d.rename(columns=rename): every column carrying a renamed label
Reconcile(cols) ==
    LET ncols  == [i \in 1..Len(cols) |-> _norm(cols[i])]
        rename == BuildRename(cols, ncols, EXPECTED, <<>>)
    IN  [i \in 1..Len(cols) |->
            IF cols[i] \in DOMAIN rename THEN rename[cols[i]] ELSE cols[i]]

(***************************************************************************)
(* Frames: cols is the sequence of column labels, rows the sequence of     *)
(* rows, each a sequence of cells, one per column.                         *)
(***************************************************************************)
Frame(cols, rows) == [cols |-> cols, rows |-> rows]
NoFrame == Frame(<<>>, <<>>)

HasCol(f, name) == \E i \in 1..Len(f.cols) : f.cols[i] = name
ColIdx(f, name) == {i \in 1..Len(f.cols) : f.cols[i] = name}
\* d[name] is a column (a Series) only when one column carries the label
IsSeries(f, name) == Cardinality(ColIdx(f, name)) = 1
At(f, name) == CHOOSE i \in 1..Len(f.cols) : f.cols[i] = name
Series(f, name) == LET i == At(f, name) IN [r \in 1..Len(f.rows) |-> f.rows[r][i]]

\* d[name] = vals: an existing column is overwritten, a new one appended
SetCol(f, name, vals) ==
    IF HasCol(f, name)
    THEN LET at == At(f, name)
         IN  Frame(f.cols,
                   [r \in 1..Len(f.rows) |->
                       [i \in 1..Len(f.cols) |-> IF i = at THEN vals[r] ELSE f.rows[r][i]]])
    ELSE Frame(Append(f.cols, name),
               [r \in 1..Len(f.rows) |-> Append(f.rows[r], vals[r])])

\* the rows, in order, whose cells under the given labels are not null
DropNa(f, subset) ==
    LET at == {At(f, name) : name \in subset}
    IN  Frame(f.cols, SelectSeq(f.rows, LAMBDA row : \A i \in at : ~IsNull(row[i])))

(***************************************************************************)
(* prepare.                                                                *)
(***************************************************************************)
\* a variant of MissingRequired that checks the date column only
MissingRequiredDateOnly(d) == IF ~HasCol(d, c_date) THEN "date" ELSE "none"

\* the two required-column checks, in the order of the code
MissingRequired(d) ==
    IF ~HasCol(d, c_date) THEN "date"
    ELSE IF ~HasCol(d, c_NetAmount) THEN "Net amount"
    ELSE "none"

\* a variant of DropUnresolved that drops on Date only
DropUnresolvedDateOnly(d) == DropNa(d, {c_Date})

\* d.dropna(subset=["Date", "Amount"])
DropUnresolved(d) == DropNa(d, {c_Date, c_Amount})

\* d["Month"] = d["Date"].dt.to_period("M").dt.to_timestamp()
WithMonth(d) ==
    LET dates == Series(d, c_Date)
    IN  SetCol(d, c_Month, [r \in 1..Len(d.rows) |-> Ts(MonthStart(dates[r].days))])

\* parse_amount over the column: a text is parsed, a numeric value is
\* rendered and read back unchanged, anything else is NaN
AmountOf(c) ==
    CASE c.kind = "text" -> parse_amount(c.s)
      [] c.kind = "amt"  -> c
      [] OTHER           -> NaN

AmountSeries(d) ==
    LET net == Series(d, c_NetAmount) IN [r \in 1..Len(d.rows) |-> AmountOf(net[r])]

\* prepare(df), given the units of parse_date whose evaluation raised:
\*   "stop"   st.error and st.stop() on a missing required column
\*   "raise"  d["date"] or d["Net amount"] is not a single column: the
\*            parsers raise on a DataFrame
\*   "ok"     the canonical frame d; typed is d before the dropna
prepare(df, raised) ==
    LET d0      == Frame(Reconcile(df.cols), df.rows)
        missing == MissingRequired(d0)
    IN  IF missing # "none"
        THEN [kind |-> "stop", missing |-> missing]
        ELSE IF ~IsSeries(d0, c_date) \/ ~IsSeries(d0, c_NetAmount)
        THEN [kind |-> "raise"]
        ELSE LET d1 == SetCol(d0, c_Date, parse_date(Series(d0, c_date), raised))
                 d2 == SetCol(d1, c_Amount, AmountSeries(d1))
             IN  [kind |-> "ok", typed |-> d2, d |-> WithMonth(DropUnresolved(d2))]

(***************************************************************************)
(* apply_filters.                                                          *)
(***************************************************************************)
FilterCols == <<c_Fund, c_FSLI1, c_FSLI3, c_GLAccount, c_GLAccountName,
                c_reference, c_description, c_seq>>

RECURSIVE SeqMin(_)
SeqMin(s) == IF Len(s) = 1 THEN s[1]
             ELSE IF s[1] <= SeqMin(Tail(s)) THEN s[1] ELSE SeqMin(Tail(s))
RECURSIVE SeqMax(_)
SeqMax(s) == IF Len(s) = 1 THEN s[1]
             ELSE IF s[1] >= SeqMax(Tail(s)) THEN s[1] ELSE SeqMax(Tail(s))

DateDays(d) == LET s == Series(d, c_Date) IN [r \in 1..Len(d.rows) |-> s[r].days]

\* the positions of the date-range slider that the model tries: the two
\* ends and the days next to them
SliderStops(mn, mx) == {x \in {mn, mn + 1, mx - 1, mx} : mn <= x /\ x <= mx}

\* d[(d["Date"] >= start) & (d["Date"] <= end)]
InDateRange(d, start, end) ==
    LET at == At(d, c_Date)
    IN  Frame(d.cols, SelectSeq(d.rows, LAMBDA row :
                          row[at].days >= start /\ row[at].days <= end))

\* astype(str) of a cell of a descriptive column
AsStr(c) == IF c.kind = "text" THEN c.s ELSE <<"n", "a", "n">>

\* d[col].dropna().astype(str).unique(), the options of the multiselect
Opts(d, col) ==
    LET at == At(d, col)
    IN  {AsStr(d.rows[r][at]) : r \in {q \in 1..Len(d.rows) : ~IsNull(d.rows[q][at])}}

\* d[d[col].astype(str).isin(pick)]
IsIn(d, col, pick) ==
    LET at == At(d, col)
    IN  Frame(d.cols, SelectSeq(d.rows, LAMBDA row : AsStr(row[at]) \in pick))

\* the loop over the filter columns; picks[col] is what the user selected
\* in the multiselect of col.  ok is FALSE when d[col] is not a single
\* column (the Series methods raise), valid is FALSE when a pick is not
\* among the options offered
RECURSIVE RoleFilters(_, _, _)
RoleFilters(d, cols, picks) ==
    IF cols = <<>> THEN [ok |-> TRUE, valid |-> TRUE, d |-> d]
    ELSE IF ~HasCol(d, Head(cols)) THEN RoleFilters(d, Tail(cols), picks)
    ELSE IF ~IsSeries(d, Head(cols)) THEN [ok |-> FALSE, valid |-> TRUE, d |-> d]
    ELSE IF ~(picks[Head(cols)] \subseteq Opts(d, Head(cols)))
         THEN [ok |-> TRUE, valid |-> FALSE, d |-> d]
    ELSE IF picks[Head(cols)] # {}
         THEN RoleFilters(IsIn(d, Head(cols), picks[Head(cols)]), Tail(cols), picks)
         ELSE RoleFilters(d, Tail(cols), picks)

PresentFilterCols(d) == {FilterCols[i] : i \in {j \in 1..Len(FilterCols) : HasCol(d, FilterCols[j])}}

\* every text a multiselect may offer
PickPool(d) ==
    UNION {{AsStr(d.rows[r][i]) : r \in 1..Len(d.rows)} :
              i \in {j \in 1..Len(d.cols) : d.cols[j] \in PresentFilterCols(d)}}

apply_filters(df, start, end, picks) ==
    RoleFilters(InDateRange(df, start, end), FilterCols, picks)

(***************************************************************************)
(* transactions_download_button and dashboard_view.                        *)
(***************************************************************************)
cols_pref == <<c_Date, c_Amount, c_Fund, c_FSLI1, c_FSLI3, c_GLAccount,
               c_GLAccountName, c_reference, c_description, c_seq>>

\* df[names]
Project(f, names) ==
    LET at == [i \in 1..Len(names) |-> At(f, names[i])]
    IN  Frame(names, [r \in 1..Len(f.rows) |-> [i \in 1..Len(names) |-> f.rows[r][at[i]]]])

PresentOf(names, f) == SelectSeq(names, LAMBDA c : HasCol(f, c))

\* the sheet Transactions_Filtered written by transactions_download_button
transactions_export(df) == Project(df, PresentOf(cols_pref, df))

RECURSIVE SumSeq(_)
SumSeq(s) == IF s = <<>> THEN 0 ELSE Head(s) + SumSeq(Tail(s))

Amounts(d) == LET s == Series(d, c_Amount) IN [r \in 1..Len(d.rows) |-> s[r].v]
MonthDays(d) == LET s == Series(d, c_Month) IN [r \in 1..Len(d.rows) |-> s[r].days]

\* the ascending sequence of the elements of a set of integers
RECURSIVE Ascending(_)
Ascending(S) ==
    IF S = {} THEN <<>>
    ELSE LET m == CHOOSE x \in S : \A y \in S : x <= y
         IN  <<m>> \o Ascending(S \ {m})

\* the four metrics, the monthly net amounts and the transactions table
dashboard(df) ==
    LET a       == Amounts(df)
        md      == MonthDays(df)
        inflow  == SumSeq(SelectSeq(a, LAMBDA x : x > 0))
        outflow == SumSeq(SelectSeq(a, LAMBDA x : x < 0))
        months  == Ascending({md[r] : r \in 1..Len(df.rows)})
    IN  [kind    |-> "dashboard",
         inflow  |-> inflow,
         outflow |-> outflow,
         net     |-> inflow + outflow,
         nrows   |-> Len(df.rows),
         monthly |-> [j \in 1..Len(months) |->
                        [Month |-> months[j],
                         Amount |-> SumSeq([r \in 1..Len(df.rows) |->
                                              IF md[r] = months[j] THEN a[r] ELSE 0])]],
         table   |-> Project(df, PresentOf(cols_pref, df))]

(***************************************************************************)
(* trial_balance_view.                                                     *)
(***************************************************************************)
DIMS == <<c_GLAccount, c_GLAccountName, c_FSLI1, c_FSLI3, c_Fund>>

\* idx = [c for c in DIMS if c in df.columns]
IdxOf(df) == PresentOf(DIMS, df)

InSeq(x, s) == \E i \in 1..Len(s) : s[i] = x

\* a variant of NoAccountColumn that wants both columns
NoAccountColumnEither(idx) == ~InSeq(c_GLAccount, idx) \/ ~InSeq(c_GLAccountName, idx)

\* the precondition: the view reports an error when neither column is there
NoAccountColumn(idx) == ~InSeq(c_GLAccount, idx) /\ ~InSeq(c_GLAccountName, idx)

\* the dimension tuple of a row; at holds the positions of the idx columns
KeyOf(at, row) == [i \in 1..Len(at) |-> row[at[i]]]

\* df.groupby(idx + ["Month"]) leaves out the rows with a null key
\* (dropna=True is the default of groupby); Month is never null
Grouped(df, at) ==
    SelectSeq(df.rows, LAMBDA row : \A i \in 1..Len(at) : ~IsNull(row[at[i]]))

\* the sum of Amount of one (tuple, month) group; fill_value=0 where the
\* tuple has no row in the month
Movement(at, atMonth, atAmount, rows, key, month) ==
    LET hit == SelectSeq(rows, LAMBDA row :
                   KeyOf(at, row) = key /\ row[atMonth].days = month)
    IN  IF hit = <<>> THEN 0
        ELSE SumSeq([r \in 1..Len(hit) |-> hit[r][atAmount].v])

\* a variant of MonthCols that sorts on the label MM/DD/YYYY as a text
LabelKey(days) ==
    LET c == CivilFromDays(days) IN (c.m * 100 + c.d) * 10000 + c.y
RECURSIVE AscendingByLabel(_)
AscendingByLabel(S) ==
    IF S = {} THEN <<>>
    ELSE LET m == CHOOSE x \in S : \A y \in S : LabelKey(x) <= LabelKey(y)
         IN  <<m>> \o AscendingByLabel(S \ {m})
MonthColsByLabel(months) == AscendingByLabel(months)

\* sorted(list(pivot_mov.columns), key=lambda x: pd.Timestamp(x))
MonthCols(months) == Ascending(months)

\* cumsum(axis=1) of one row of the pivot
RECURSIVE CumAt(_, _)
CumAt(s, j) == IF j = 0 THEN 0 ELSE CumAt(s, j - 1) + s[j]
CumSum(s) == [j \in 1..Len(s) |-> CumAt(s, j)]

\* a variant of GrandTotal that adds up the cumulative columns
GrandTotalRowSum(cumrow) == SumSeq(cumrow)

\* pivot_cum["Grand Total"] = pivot_cum[month_cols[-1]] if month_cols else 0
GrandTotal(cumrow) == IF cumrow # <<>> THEN cumrow[Len(cumrow)] ELSE 0

\* trial_balance_view(df): the error, or the cumulative pivot that is
\* displayed and exported
trial_balance(df) ==
    LET idx == IdxOf(df)
    IN  IF NoAccountColumn(idx) THEN [kind |-> "error_tb"]
        ELSE LET at         == [i \in 1..Len(idx) |-> At(df, idx[i])]
                 atMonth    == At(df, c_Month)
                 atAmount   == At(df, c_Amount)
                 rows       == Grouped(df, at)
                 keys       == {KeyOf(at, rows[r]) : r \in 1..Len(rows)}
                 month_cols == MonthCols({rows[r][atMonth].days : r \in 1..Len(rows)})
                 cum        == [k \in keys |->
                                  CumSum([j \in 1..Len(month_cols) |->
                                            Movement(at, atMonth, atAmount, rows, k,
                                                     month_cols[j])])]
             IN  [kind       |-> "pivot",
                  idx        |-> idx,
                  keys       |-> keys,
                  month_cols |-> month_cols,
                  cum        |-> cum,
                  grand      |-> [k \in keys |-> GrandTotal(cum[k])]]

(***************************************************************************)
(* State.                                                                  *)
(*   pc        where the script run (or the function under check) stands   *)
(*   uploaded  the uploaded file, sheet the name of the sheet read         *)
(*   raw       the frame read by load_gl_sheet                             *)
(*   df        the canonical frame built by prepare                        *)
(*   fdf       the frame returned by apply_filters                         *)
(*   out       what the run has rendered so far, in order                  *)
(*   paIn, paOut   a value given to parse_amount and the result            *)
(*   pdIn, pdOut   a column given to parse_date and the result             *)
(*   hrIn, hrOut   column labels before and after header reconciliation    *)
(*   tbIn, tbOut   a canonical frame given to trial_balance_view and what  *)
(*                 the view produced                                       *)
(***************************************************************************)
VARIABLES pc, uploaded, sheet, raw, df, fdf, out,
          paIn, paOut, pdIn, pdOut, hrIn, hrOut, tbIn, tbOut

vars == <<pc, uploaded, sheet, raw, df, fdf, out,
          paIn, paOut, pdIn, pdOut, hrIn, hrOut, tbIn, tbOut>>

runVars == <<uploaded, sheet, raw, df, fdf, out>>
fnVars == <<paIn, paOut, pdIn, pdOut, hrIn, hrOut, tbIn, tbOut>>

SeqsUpTo(S, n) == UNION {[1..k -> S] : k \in 0..n}

RunIdle ==
    /\ uploaded = [kind |-> "none"]
    /\ sheet = ""
    /\ raw = NoFrame
    /\ df = NoFrame
    /\ fdf = NoFrame
    /\ out = <<>>

NoBest == [cand |-> <<>>, sc |-> 0 - 1, by |-> "baseline"]

AmountIdle == paIn = <<>> /\ paOut = NaN
DateIdle == pdIn = <<>> /\ pdOut = [best |-> NoBest, raised |-> {}]
HeaderIdle == hrIn = <<>> /\ hrOut = <<>>
TBIdle == tbIn = NoFrame /\ tbOut = [kind |-> "none"]

(***************************************************************************)
(* parse_amount on every text of up to MaxText characters.                 *)
(***************************************************************************)
AmountChars == {"(", ")", ",", " ", "-", "1", "5"}

InitAmount ==
    /\ pc = "call"
    /\ paIn \in SeqsUpTo(AmountChars, MaxText)
    /\ paOut = NaN
    /\ RunIdle /\ DateIdle /\ HeaderIdle /\ TBIdle

ParseAmount ==
    /\ pc = "call"
    /\ paOut' = parse_amount(paIn)
    /\ pc' = "return"
    /\ UNCHANGED <<runVars, paIn, pdIn, pdOut, hrIn, hrOut, tbIn, tbOut>>

NextAmount == ParseAmount
SpecAmount == InitAmount /\ [][NextAmount]_vars

(***************************************************************************)
(* parse_date on every column of up to MaxSeries values.                   *)
(***************************************************************************)
DateCells ==
    {Txt(<<"2","0","2","5","-","0","1","-","3","1">>),      \* a date text
     Txt(<<"1","9","8","5","-","0","6","-","1","5">>),      \* a date text before 1990
     Txt(<<"4","5",",","0","0","0">>),                  \* a day serial written as text
     Txt(<<"x">>),                                   \* no date, no number
     NaN,                                            \* an empty cell
     Num(45, 0),                                     \* 45000: day serial 2023-03-15
     Num(20, 0),                                     \* 20000: day serial 1954-10-03
     Num(1735862, 400),                              \* Unix seconds, 2025-01-03
     Num(1735862400, 0)}                             \* Unix milliseconds, 2025-01-03

InitDate ==
    /\ pc = "call"
    /\ pdIn \in SeqsUpTo(DateCells, MaxSeries)
    /\ pdOut = [best |-> NoBest, raised |-> {}]
    /\ RunIdle /\ AmountIdle /\ HeaderIdle /\ TBIdle

ParseDate ==
    /\ pc = "call"
    /\ \E raised \in SUBSET MayRaise(pdIn) :
          pdOut' = [best |-> parse_date_best(pdIn, raised), raised |-> raised]
    /\ pc' = "return"
    /\ UNCHANGED <<runVars, paIn, paOut, pdIn, hrIn, hrOut, tbIn, tbOut>>

NextDate == ParseDate
SpecDate == InitDate /\ [][NextDate]_vars

(***************************************************************************)
(* Header reconciliation on every list of up to MaxCols distinct labels.   *)
(***************************************************************************)
l_Date == c_Date
l_DATE == <<" ","D","A","T","E"," ">>
l_NETAMOUNT == <<"N","E","T"," ","A","M","O","U","N","T">>
l_fund == <<"f","u","n","d"," ">>
l_memo == <<"m","e","m","o">>

LabelPool == {c_date, l_Date, l_DATE, c_NetAmount, l_NETAMOUNT, c_Fund, l_fund, l_memo}

\* the labels of a sheet are distinct: read_excel renames a repeated label
Distinct(s) == \A i, j \in 1..Len(s) : i # j => s[i] # s[j]

InitHeader ==
    /\ pc = "call"
    /\ hrIn \in {s \in SeqsUpTo(LabelPool, MaxCols) : Distinct(s)}
    /\ hrOut = <<>>
    /\ RunIdle /\ AmountIdle /\ DateIdle /\ TBIdle

ReconcileHeaders ==
    /\ pc = "call"
    /\ hrOut' = Reconcile(hrIn)
    /\ pc' = "return"
    /\ UNCHANGED <<runVars, paIn, paOut, pdIn, pdOut, hrIn, tbIn, tbOut>>

NextHeader == ReconcileHeaders
SpecHeader == InitHeader /\ [][NextHeader]_vars

(***************************************************************************)
(* Sheets: a layout is a sequence of columns, each a label and the kind of *)
(* cell the column holds.                                                  *)
(***************************************************************************)
ColOf(label, role) == [label |-> label, role |-> role]
LabelsOf(layout) == [i \in 1..Len(layout) |-> layout[i].label]

\* the rows a layout admits: every choice of one cell per kind of cell,
\* laid out along the columns (columns of the same kind hold the same cell)
RowsOf(layout, contents) ==
    {[i \in 1..Len(layout) |-> rc[layout[i].role]] : rc \in contents}

v_1000 == Txt(<<"1","0","0","0">>)
v_1200 == Txt(<<"1","2","0","0">>)
v_Cash == Txt(<<"C","a","s","h">>)
v_FundI == Txt(<<"F","u","n","d"," ","I">>)
v_100 == Txt(<<"1","0","0">>)
v_30neg == Txt(<<"(","3","0",")">>)
v_junk == Txt(<<"x">>)

(***************************************************************************)
(* trial_balance_view on the canonical frame of every sheet of up to       *)
(* MaxRecs rows whose dates and amounts all resolve.                       *)
(***************************************************************************)
TBContents ==
    [date : {Ts(DaysFromCivil(2024, 12, 15)), Ts(DaysFromCivil(2025, 1, 31)),
             Ts(DaysFromCivil(2025, 2, 5))},
     amt  : {v_100, v_30neg},
     acct : {v_1000, v_1200, NaN},
     name : {v_Cash, NaN},
     fund : {v_FundI}]

TBLayouts ==
    {<<ColOf(c_GLAccount, "acct"), ColOf(c_date, "date"), ColOf(c_NetAmount, "amt")>>,
     <<ColOf(c_Fund, "fund"), ColOf(c_GLAccount, "acct"), ColOf(c_date, "date"),
       ColOf(c_NetAmount, "amt")>>,
     <<ColOf(c_GLAccountName, "name"), ColOf(c_date, "date"), ColOf(c_NetAmount, "amt")>>,
     <<ColOf(c_Fund, "fund"), ColOf(c_date, "date"), ColOf(c_NetAmount, "amt")>>}


InitTB ==
    /\ pc = "call"
    /\ \E layout \in TBLayouts :
       \E rows \in SeqsUpTo(RowsOf(layout, TBContents), MaxRecs) :
          tbIn = prepare(Frame(LabelsOf(layout), rows), {}).d
    /\ tbOut = [kind |-> "none"]
    /\ RunIdle /\ AmountIdle /\ DateIdle /\ HeaderIdle

TrialBalanceCall ==
    /\ pc = "call"
    /\ tbOut' = trial_balance(tbIn)
    /\ pc' = "return"
    /\ UNCHANGED <<runVars, paIn, paOut, pdIn, pdOut, hrIn, hrOut, tbIn>>

NextTB == TrialBalanceCall
SpecTB == InitTB /\ [][NextTB]_vars

(***************************************************************************)
(* A run of the script (main), and its reruns, on an uploaded workbook.    *)
(***************************************************************************)
RunContents ==
    [date : {Ts(DaysFromCivil(2025, 1, 31)),
             Txt(<<"2","0","2","5","-","0","2","-","0","5">>),
             v_junk},
     amt  : {v_30neg, v_junk},
     acct : {v_1000, v_1200},
     fund : {v_FundI}]

RunLayouts ==
    {<<ColOf(c_date, "date"), ColOf(c_NetAmount, "amt"), ColOf(c_GLAccount, "acct")>>,
     <<ColOf(l_DATE, "date"), ColOf(l_NETAMOUNT, "amt"), ColOf(c_Fund, "fund")>>,
     <<ColOf(l_Date, "date"), ColOf(c_date, "date"), ColOf(c_NetAmount, "amt"),
       ColOf(c_GLAccountName, "acct")>>,
     <<ColOf(c_date, "date"), ColOf(l_Date, "date"), ColOf(c_NetAmount, "amt"),
       ColOf(c_GLAccountName, "acct")>>,
     <<ColOf(c_NetAmount, "amt"), ColOf(c_GLAccount, "acct")>>,
     <<ColOf(c_date, "date"), ColOf(c_GLAccount, "acct")>>}


SheetOf(name, frame) == [name |-> name, frame |-> frame]

\* the uploader holds nothing, a file that cannot be read, or a workbook:
\* its data in a sheet GL, in a single sheet of another name, or in a sheet
\* GL behind an empty first sheet
Uploads(sh) ==
    {[kind |-> "none"],
     [kind |-> "corrupt"],
     [kind |-> "xlsx", sheets |-> <<SheetOf("GL", sh)>>],
     [kind |-> "xlsx", sheets |-> <<SheetOf("Data", sh)>>],
     [kind |-> "xlsx", sheets |-> <<SheetOf("Data", NoFrame), SheetOf("GL", sh)>>]}

\* load_gl_sheet: the sheet GL if there is one, else the first sheet
load_gl_sheet(up) ==
    IF \E i \in 1..Len(up.sheets) : up.sheets[i].name = "GL"
    THEN up.sheets[CHOOSE i \in 1..Len(up.sheets) : up.sheets[i].name = "GL"]
    ELSE up.sheets[1]

Init ==
    /\ pc = "main"
    /\ \E layout \in RunLayouts :
       \E rows \in SeqsUpTo(RowsOf(layout, RunContents), MaxRows) :
          uploaded \in Uploads(Frame(LabelsOf(layout), rows))
    /\ sheet = ""
    /\ raw = NoFrame
    /\ df = NoFrame
    /\ fdf = NoFrame
    /\ out = <<>>
    /\ AmountIdle /\ DateIdle /\ HeaderIdle /\ TBIdle

\* main: nothing uploaded
NoUpload ==
    /\ pc = "main"
    /\ uploaded.kind = "none"
    /\ out' = Append(out, [kind |-> "info_upload"])
    /\ pc' = "done"
    /\ UNCHANGED <<uploaded, sheet, raw, df, fdf, fnVars>>

\* main: load_gl_sheet raises
LoadFails ==
    /\ pc = "main"
    /\ uploaded.kind = "corrupt"
    /\ out' = Append(out, [kind |-> "error_read"])
    /\ pc' = "done"
    /\ UNCHANGED <<uploaded, sheet, raw, df, fdf, fnVars>>

LoadSheet ==
    /\ pc = "main"
    /\ uploaded.kind = "xlsx"
    /\ raw' = load_gl_sheet(uploaded).frame
    /\ sheet' = load_gl_sheet(uploaded).name
    /\ pc' = "loaded"
    /\ UNCHANGED <<uploaded, df, fdf, out, fnVars>>

\* the units of parse_date that may raise on the date column of the sheet
RaiseChoices(f) ==
    LET d0 == Frame(Reconcile(f.cols), f.rows)
    IN  IF IsSeries(d0, c_date) THEN SUBSET MayRaise(Series(d0, c_date)) ELSE {{}}

\* prepare works on df.copy(): the frame it was given stays as it was
RawAfterPrepare(given, res) == given

\* prepare: st.error and st.stop() on a missing required column
PrepareStops ==
    /\ pc = "loaded"
    /\ \E raised \in RaiseChoices(raw) :
          LET res == prepare(raw, raised)
          IN  /\ res.kind = "stop"
              /\ out' = Append(out, [kind |-> "error_missing", column |-> res.missing])
              /\ raw' = RawAfterPrepare(raw, res)
    /\ pc' = "stopped"
    /\ UNCHANGED <<uploaded, sheet, df, fdf, fnVars>>

\* prepare: an exception leaves the run
PrepareRaises ==
    /\ pc = "loaded"
    /\ \E raised \in RaiseChoices(raw) :
          LET res == prepare(raw, raised)
          IN  /\ res.kind = "raise"
              /\ raw' = RawAfterPrepare(raw, res)
    /\ pc' = "raised"
    /\ UNCHANGED <<uploaded, sheet, df, fdf, out, fnVars>>

\* prepare returns, and main renders the caption with the rows loaded
Prepare ==
    /\ pc = "loaded"
    /\ \E raised \in RaiseChoices(raw) :
          LET res == prepare(raw, raised)
          IN  /\ res.kind = "ok"
              /\ df' = res.d
              /\ raw' = RawAfterPrepare(raw, res)
              /\ out' = Append(out, [kind |-> "caption_loaded", sheet |-> sheet,
                                     nrows |-> Len(res.d.rows)])
    /\ pc' = "prepared"
    /\ UNCHANGED <<uploaded, sheet, fdf, fnVars>>

\* a variant of AfterFilters that filters the frame in place
AfterFiltersInPlace(given, d) == d

\* apply_filters works on df.copy() and on the new frames that boolean
\* indexing returns: the frame it was given stays as it was
AfterFilters(given, d) == given

\* apply_filters raises: the slider cannot be built on an empty frame
\* (min and max of Date are NaT), and d[col] of a repeated label has no
\* Series methods
ApplyFiltersRaises ==
    /\ pc = "prepared"
    /\ \/ df.rows = <<>>
       \/ \E c \in PresentFilterCols(df) : ~IsSeries(df, c)
    /\ pc' = "raised"
    /\ UNCHANGED <<runVars, fnVars>>

\* apply_filters returns for a date range and picks the widgets allow, and
\* main renders the caption with the rows left
ApplyFilters ==
    /\ pc = "prepared"
    /\ df.rows # <<>>
    /\ \A c \in PresentFilterCols(df) : IsSeries(df, c)
    /\ \E start, end \in SliderStops(SeqMin(DateDays(df)), SeqMax(DateDays(df))) :
       \E picks \in [PresentFilterCols(df) -> SUBSET PickPool(df)] :
          LET res == apply_filters(df, start, end, picks)
          IN  /\ start <= end
              /\ res.valid
              /\ fdf' = res.d
              /\ df' = AfterFilters(df, res.d)
              /\ out' = Append(out, [kind |-> "caption_filtered", nrows |-> Len(res.d.rows)])
    /\ pc' = "filtered"
    /\ UNCHANGED <<uploaded, sheet, raw, fnVars>>

TransactionsDownload ==
    /\ pc = "filtered"
    /\ out' = Append(out, [kind |-> "export_tx", frame |-> transactions_export(fdf)])
    /\ pc' = "exported"
    /\ UNCHANGED <<uploaded, sheet, raw, df, fdf, fnVars>>

\* the radio is on Dashboard
DashboardView ==
    /\ pc = "exported"
    /\ out' = Append(out, dashboard(fdf))
    /\ pc' = "done"
    /\ UNCHANGED <<uploaded, sheet, raw, df, fdf, fnVars>>

\* the radio is on Rolling Trial Balance: the error, or the pivot shown
\* and offered as a download
TrialBalanceView ==
    /\ pc = "exported"
    /\ out' = Append(out, trial_balance(fdf))
    /\ pc' = "done"
    /\ UNCHANGED <<uploaded, sheet, raw, df, fdf, fnVars>>

\* a widget interaction reruns the script from the top on the same upload
Rerun ==
    /\ pc \in {"done", "stopped", "raised"}
    /\ pc' = "main"
    /\ sheet' = ""
    /\ raw' = NoFrame
    /\ df' = NoFrame
    /\ fdf' = NoFrame
    /\ out' = <<>>
    /\ UNCHANGED <<uploaded, fnVars>>

Next ==
    \/ NoUpload
    \/ LoadFails
    \/ LoadSheet
    \/ PrepareStops
    \/ PrepareRaises
    \/ Prepare
    \/ ApplyFiltersRaises
    \/ ApplyFilters
    \/ TransactionsDownload
    \/ DashboardView
    \/ TrialBalanceView
    \/ Rerun

Spec == Init /\ [][Next]_vars

(***************************************************************************)
(* The properties.                                                         *)
(***************************************************************************)
RECURSIVE SumOver(_, _)
SumOver(S, f) ==
    IF S = {} THEN 0
    ELSE LET x == CHOOSE y \in S : TRUE IN f[x] + SumOver(S \ {x}, f)

\* the rows of a canonical frame that carry the dimension tuple key under
\* the columns idx
RowsOfKey(f, idx, key) ==
    {r \in 1..Len(f.rows) : \A i \in 1..Len(idx) : f.rows[r][At(f, idx[i])] = key[i]}

AmountAt(f) == [r \in 1..Len(f.rows) |-> f.rows[r][At(f, c_Amount)].v]

\* the movement of a tuple in a month: the sum of Amount over the input
\* records of the tuple dated in that calendar month, 0 when there is none
MovementIn(f, idx, key, month) ==
    SumOver({r \in RowsOfKey(f, idx, key) :
                CivilFromDays(f.rows[r][At(f, c_Date)].days).y = CivilFromDays(month).y
                /\ CivilFromDays(f.rows[r][At(f, c_Date)].days).m = CivilFromDays(month).m},
            AmountAt(f))

MonthNumber(days) == CivilFromDays(days).y * 12 + CivilFromDays(days).m

\* C1: in the pivot of trial_balance_view the month columns stand in
\* ascending calendar order, one per month that has a grouped record, and
\* in every row the cell of the first month is the movement of the tuple in
\* that month and the cell of each later month is the cell before it plus
\* the movement of its own month (0 when the tuple has no record there).
C1_CumulativeCells ==
    (pc = "return" /\ tbOut.kind = "pivot") =>
        /\ \A j \in 1..(Len(tbOut.month_cols) - 1) :
              MonthNumber(tbOut.month_cols[j]) < MonthNumber(tbOut.month_cols[j + 1])
        /\ \A k \in tbOut.keys :
              /\ RowsOfKey(tbIn, tbOut.idx, k) # {}
              /\ Len(tbOut.cum[k]) = Len(tbOut.month_cols)
              /\ \A r \in RowsOfKey(tbIn, tbOut.idx, k) :
                    \E j \in 1..Len(tbOut.month_cols) :
                       MonthNumber(tbOut.month_cols[j])
                          = MonthNumber(tbIn.rows[r][At(tbIn, c_Date)].days)
              /\ \A j \in 1..Len(tbOut.month_cols) :
                    tbOut.cum[k][j] =
                       (IF j = 1 THEN 0 ELSE tbOut.cum[k][j - 1])
                          + MovementIn(tbIn, tbOut.idx, k, tbOut.month_cols[j])

\* a row with the movements 100, -30, 0 in three months running over a
\* change of year
C1_Witness ==
    /\ pc = "return"
    /\ tbOut.kind = "pivot"
    /\ \E k \in tbOut.keys : tbOut.cum[k] = <<100, 70, 70>>
    /\ Len(tbOut.month_cols) = 3
    /\ CivilFromDays(tbOut.month_cols[1]).y < CivilFromDays(tbOut.month_cols[3]).y

\* C2: Grand Total is, in every row, the value of the chronologically last
\* cumulative month column, hence the sum of all Amounts of the tuple; on
\* an input of zero records the view raises nothing and gives a pivot with
\* no month column and no row (Grand Total is 0 wherever there is a row
\* and no month).
C2_GrandTotal ==
    (pc = "return" /\ ~NoAccountColumn(IdxOf(tbIn))) =>
        /\ tbOut.kind = "pivot"
        /\ \A k \in tbOut.keys :
              /\ tbOut.month_cols # <<>> =>
                    /\ tbOut.grand[k] = tbOut.cum[k][Len(tbOut.month_cols)]
                    /\ \A j \in 1..Len(tbOut.month_cols) :
                          tbOut.month_cols[j] <= tbOut.month_cols[Len(tbOut.month_cols)]
              /\ tbOut.month_cols = <<>> => tbOut.grand[k] = 0
              /\ tbOut.grand[k] = SumOver(RowsOfKey(tbIn, tbOut.idx, k), AmountAt(tbIn))
        /\ tbIn.rows = <<>> => (tbOut.month_cols = <<>> /\ tbOut.keys = {})

\* a row whose Grand Total differs from its first month and from the sum
\* of its cumulative cells
C2_Witness ==
    /\ pc = "return"
    /\ tbOut.kind = "pivot"
    /\ \E k \in tbOut.keys : tbOut.cum[k] = <<100, 70>> /\ tbOut.grand[k] = 70

\* the pivot of an input of zero records
C2_EmptyWitness ==
    /\ pc = "return"
    /\ tbIn.rows = <<>>
    /\ tbOut.kind = "pivot"

\* C10 (the claim as stated): every record of the input is counted in one
\* row and one month of the pivot, so the Grand Totals add up to the sum of
\* Amount over all input records, also when a record has a missing value
\* in a dimension column.
C10_Conservation ==
    (pc = "return" /\ tbOut.kind = "pivot") =>
        SumOver(tbOut.keys, tbOut.grand) = SumOver(1..Len(tbIn.rows), AmountAt(tbIn))

\* the column of the sheet that header reconciliation takes for want: the
\* first one whose label equals it but for case and surrounding blanks
Matches(label, want) == _norm(label) = _norm(want)
MatchedBy(cols, want) ==
    CHOOSE i \in 1..Len(cols) :
        Matches(cols[i], want) /\ \A j \in 1..(i - 1) : ~Matches(cols[j], want)

C5_MissingColumnHalts ==
    (/\ pc \notin {"main", "loaded"}
     /\ uploaded.kind = "xlsx"
     /\ \/ \A i \in 1..Len(raw.cols) : ~Matches(raw.cols[i], c_date)
        \/ \A i \in 1..Len(raw.cols) : ~Matches(raw.cols[i], c_NetAmount))
    =>  /\ pc = "stopped"
        /\ out = <<[kind |-> "error_missing",
                    column |-> IF \A i \in 1..Len(raw.cols) : ~Matches(raw.cols[i], c_date)
                               THEN "date" ELSE "Net amount"]>>
        /\ df = NoFrame
        /\ fdf = NoFrame

\* a sheet with rows and a date column but no amount column has stopped
C5_Witness ==
    /\ pc = "stopped"
    /\ raw.rows # <<>>
    /\ out[1].column = "Net amount"

\* C6: when the radio is on the trial balance and the filtered frame has
\* neither GL Account nor GL Account Name, the view renders its error and
\* no pivot, after the two captions and the transaction export of the same
\* run, which are what they are for that frame, and the run ends normally;
\* with one of the two columns the view renders the pivot.
C6_AccountPrecondition ==
    (pc = "done" /\ out # <<>> /\ out[Len(out)].kind \in {"error_tb", "pivot"}) =>
        /\ out[Len(out)].kind =
              (IF ~HasCol(fdf, c_GLAccount) /\ ~HasCol(fdf, c_GLAccountName)
               THEN "error_tb" ELSE "pivot")
        /\ Len(out) = 4
        /\ out[1] = [kind |-> "caption_loaded", sheet |-> sheet, nrows |-> Len(df.rows)]
        /\ out[2] = [kind |-> "caption_filtered", nrows |-> Len(fdf.rows)]
        /\ out[3] = [kind |-> "export_tx", frame |-> transactions_export(fdf)]

\* the error on a frame with rows and a Fund column only
C6_Witness ==
    /\ pc = "done"
    /\ out[Len(out)].kind = "error_tb"
    /\ fdf.rows # <<>>
    /\ HasCol(fdf, c_Fund)

\* the pivot on a frame with GL Account Name and no GL Account
C6_ProceedsWitness ==
    /\ pc = "done"
    /\ out[Len(out)].kind = "pivot"
    /\ ~HasCol(fdf, c_GLAccount)
    /\ out[Len(out)].keys # {}

\* C9: within a run nothing changes the canonical frame once prepare has
\* built it (apply_filters, the transaction export and the two views leave
\* it as it is), and prepare leaves the frame read from the sheet as it is.
C9_CanonicalImmutable ==
    [][/\ pc \in {"prepared", "filtered", "exported"} => df' = df
       /\ pc \in {"loaded", "prepared", "filtered", "exported"} => raw' = raw]_vars

\* a run that has filtered rows away and rendered a view
C9_Witness ==
    /\ pc = "done"
    /\ out[Len(out)].kind \in {"dashboard", "pivot"}
    /\ Len(fdf.rows) < Len(df.rows)

\* the candidates parse_date evaluates, in its order: the free-form parse,
\* then, when a value coerces to a number, the readings in days, seconds
\* and milliseconds whose evaluation did not raise
ClaimScore(cand) ==
    IF \A i \in 1..Len(cand) : IsNull(cand[i]) THEN 0 - 1
    ELSE Cardinality({i \in 1..Len(cand) :
                         ~IsNull(cand[i]) /\ YearOf(cand[i].days) \in 1990..2100})

Evaluated(series, raised) ==
    LET nums == [i \in 1..Len(series) |-> NumOf(series[i])]
        base == <<[by |-> "baseline", cand |-> [i \in 1..Len(series) |-> Baseline(series[i])]]>>
        rest == [j \in 1..3 |-> [by |-> Units[j], cand |-> Candidate(nums, Units[j])]]
    IN  IF \E i \in 1..Len(nums) : ~IsNull(nums[i])
        THEN base \o SelectSeq(rest, LAMBDA c : c.by \notin raised)
        ELSE base

AllPlausible(cand) ==
    \A i \in 1..Len(cand) : ~IsNull(cand[i]) /\ YearOf(cand[i].days) \in 1990..2100

\* C4: parse_date returns the first candidate, in the order free-form,
\* day serial, Unix seconds, Unix milliseconds, whose score (the number of
\* resolved values with a year in 1990..2100, -1 when none resolves) is
\* the highest; a column of numbers whose day-serial reading is all in
\* 1990..2100 while no other reading is comes out as day serials.
C4_PlausibilitySelection ==
    pc = "return" =>
        LET cs == Evaluated(pdIn, pdOut.raised)
            w  == CHOOSE i \in 1..Len(cs) :
                     /\ \A j \in 1..Len(cs) : ClaimScore(cs[j].cand) <= ClaimScore(cs[i].cand)
                     /\ \A j \in 1..(i - 1) : ClaimScore(cs[j].cand) < ClaimScore(cs[i].cand)
        IN  /\ pdOut.best.by = cs[w].by
            /\ pdOut.best.cand = cs[w].cand
            /\ pdOut.best.sc = ClaimScore(cs[w].cand)
            /\ (/\ pdIn # <<>>
                /\ \A i \in 1..Len(pdIn) : ~IsNull(NumOf(pdIn[i]))
                /\ AllPlausible(Candidate([i \in 1..Len(pdIn) |-> NumOf(pdIn[i])], "d"))
                /\ \A j \in 1..Len(cs) : cs[j].by # "d" => ~AllPlausible(cs[j].cand))
               => pdOut.best.by = "d"

\* the seconds reading kept on a tie with the milliseconds reading
C4_Witness ==
    /\ pc = "return"
    /\ pdOut.best.by = "s"
    /\ pdOut.best.sc > 0
    /\ "ms" \notin pdOut.raised
    /\ score(Candidate([i \in 1..Len(pdIn) |-> NumOf(pdIn[i])], "ms")) = pdOut.best.sc

\* a column of two day serials read as day serials
C4_DaySerialWitness ==
    /\ pc = "return"
    /\ Len(pdIn) = 2
    /\ \A i \in 1..Len(pdIn) : pdIn[i].kind = "num"
    /\ pdOut.best.by = "d"
    /\ pdOut.best.sc = 2

\* C7: header reconciliation renames, for each expected name, the first
\* column (in column order) whose label equals it but for case and
\* surrounding blanks, and leaves every other label as it is, whatever the
\* labels (also labels that are equal but for case and blanks).
C7_FirstMatchRename ==
    pc = "return" =>
        /\ Len(hrOut) = Len(hrIn)
        /\ \A i \in 1..Len(hrIn) :
              LET wants == {w \in 1..Len(EXPECTED) :
                              /\ Matches(hrIn[i], EXPECTED[w])
                              /\ \A j \in 1..(i - 1) : ~Matches(hrIn[j], EXPECTED[w])}
              IN  IF wants # {} THEN hrOut[i] = EXPECTED[CHOOSE w \in wants : TRUE]
                  ELSE hrOut[i] = hrIn[i]

\* two labels matching date, neither the canonical one: the first is
\* renamed, the second kept
C7_Witness ==
    /\ pc = "return"
    /\ \E i, j \in 1..Len(hrIn) :
          /\ i < j
          /\ Matches(hrIn[i], c_date) /\ Matches(hrIn[j], c_date)
          /\ hrIn[i] # c_date /\ hrIn[j] # c_date
          /\ hrOut[i] = c_date
          /\ hrOut[j] = hrIn[j]

\* C8 (the claim as stated): after the commas are removed and the text is
\* trimmed, a text that is digits wrapped in one pair of parentheses gives
\* minus the number, a plain numeric text gives the number, and every other
\* text, also one whose parentheses wrap a part of it only, gives NaN.
C8_ParenthesesWrapWhole ==
    pc = "return" =>
        LET t == Strip(RemoveCommas(paIn))
        IN  IF Len(t) >= 3 /\ t[1] = "(" /\ t[Len(t)] = ")"
               /\ AllDigits(SubSeq(t, 2, Len(t) - 1))
            THEN paOut = Amt(0 - DigitsVal(SubSeq(t, 2, Len(t) - 1)))
            ELSE IF AllDigits(t) THEN paOut = Amt(DigitsVal(t))
            ELSE IF t # <<>> /\ Head(t) = "-" /\ AllDigits(Tail(t))
                 THEN paOut = Amt(0 - DigitsVal(Tail(t)))
            ELSE paOut = NaN

=============================================================================
